---- MODULE Spec2Model ----
(***************************************************************************)
(* A model of mock-server (src/server.go): the loader that walks the mock  *)
(* directory, the startup build of the route table, and the per-request    *)
(* dispatch chain with its response renderer.                              *)
(***************************************************************************)
EXTENDS Integers, Sequences, FiniteSets, TLC

VARIABLES
    tree,         \* the mock directory on disk (input, fixed after Init)
    pc,           \* position of main: "load", "entries", "blocked", "returned",
                  \* "fatal", "build", "listen", "serving"
    dirStack,     \* loadMocks: the buffered channel of pending directories
    dirpath,      \* loadMocks: the directory being read
    entries,      \* loadMocks: entries of dirpath not yet visited
    mocks,        \* loadMocks: the definitions appended so far
    visited,      \* loadMocks: its calls of os.ReadDir and loadMockFromJson, in order
    ret,          \* what loadMocks returned: [mocks, err]
    buildIdx,     \* main: number of definitions the build loop has consumed
    routeChain,   \* the package-level route table
    mux,          \* the patterns registered with the ServeMux, in order
    reqs          \* the in-flight requests, one per request slot

vars == <<tree, pc, dirStack, dirpath, entries, mocks, visited, ret, buildIdx,
          routeChain, mux, reqs>>

loaderVars == <<dirStack, dirpath, entries, mocks, visited, ret>>

-----------------------------------------------------------------------------
(* Program constants and the bounds of the model.                          *)

MAX_DIRECTORY_COUNT == 20

\* Number of request slots (requests that can be in flight together).
MaxRequests == 2

\* How many subdirectories beyond MAX_DIRECTORY_COUNT the widest tree has.
MaxOverflow == 1

SERVER_NAME == "mock-server"

-----------------------------------------------------------------------------
(* JSON values as decoded into interface{}, and the mock definitions.      *)

JNull == [kind |-> "nil", b |-> FALSE, n |-> 0, s |-> "", items |-> <<>>, keys |-> <<>>]
JBool(b) == [JNull EXCEPT !.kind = "bool", !.b = b]
JNum(n) == [JNull EXCEPT !.kind = "number", !.n = n]
JStr(s) == [JNull EXCEPT !.kind = "string", !.s = s]
\* an array of numbers
JArr(items) == [JNull EXCEPT !.kind = "array", !.items = items]
\* an object: keys is the sequence of its member names in document order and
\* items the numbers they hold
JObj(keys, items) == [JNull EXCEPT !.kind = "object", !.keys = keys, !.items = items]

\* A Go map[string]string with no entry (also what an omitted "headers" decodes to).
EmptyMap == [k \in {} |-> ""]

MockResponseDefinition(body, headers, statusCode) ==
    [Body |-> body, Headers |-> headers, StatusCode |-> statusCode]

MockDefinition(endpoint, method, response) ==
    [Endpoint |-> endpoint, Method |-> method, Response |-> response]

-----------------------------------------------------------------------------
(* The inputs: definitions, mock files and directory trees.                *)

Endpoints == {"/users", "/items", "/body"}

\* Methods a client may send; no definition below answers DELETE.
RequestMethods == {"GET", "POST", "DELETE"}

DefUsersGet ==
    MockDefinition("/users", "GET",
        MockResponseDefinition(JObj(<<"b", "a">>, <<2, 1>>), EmptyMap, 0))

DefUsersPost ==
    MockDefinition("/users", "POST",
        MockResponseDefinition(JStr("ok"), [k \in {"Content-Type"} |-> "text/plain"], 201))

\* same endpoint and method as DefUsersGet
DefUsersGetDup ==
    MockDefinition("/users", "GET",
        MockResponseDefinition(JNull,
            [k \in {"Server", "X-Trace"} |-> IF k = "Server" THEN "nginx" ELSE "1"],
            500))

DefItemsGet ==
    MockDefinition("/items", "GET",
        MockResponseDefinition(JArr(<<1, 2>>), [k \in {"content-type"} |-> "text/plain"],
            404))

\* The bodies a definition of /body may declare: every kind of JSON value.
Bodies ==
    {JNull, JBool(TRUE), JBool(FALSE), JNum(0), JNum(1), JNum(-42), JNum(1000000),
     JNum(1250000), JStr("ok"), JStr(""), JArr(<<>>), JArr(<<1, 2>>),
     JObj(<<>>, <<>>), JObj(<<"a">>, <<1>>), JObj(<<"c", "a">>, <<1000000, -3>>)}

DefBody(body) ==
    MockDefinition("/body", "GET", MockResponseDefinition(body, EmptyMap, 0))

\* A file on disk: whether ReadFile succeeds, whether its bytes are valid
\* JSON, the shape of the top-level value, whether the members have the types
\* the struct fields expect, and the definitions it spells out.
File(readable, valid, shape, typed, defs) ==
    [readable |-> readable, valid |-> valid, shape |-> shape, typed |-> typed,
     defs |-> defs]

FileUsers == File(TRUE, TRUE, "array", TRUE, <<DefUsersGet, DefUsersPost>>)
FileDup == File(TRUE, TRUE, "object", TRUE, <<DefUsersGetDup>>)
FileItems == File(TRUE, TRUE, "object", TRUE, <<DefItemsGet>>)
FileNull == File(TRUE, TRUE, "null", TRUE, <<>>)
FileInvalid == File(TRUE, FALSE, "none", FALSE, <<>>)
FileScalar == File(TRUE, TRUE, "scalar", FALSE, <<>>)
FileMistyped == File(TRUE, TRUE, "object", FALSE, <<DefItemsGet>>)
FileUnreadable == File(FALSE, FALSE, "none", FALSE, <<>>)

Files == {FileUsers, FileDup, FileItems, FileNull, FileInvalid, FileScalar,
          FileMistyped, FileUnreadable}

\* Directory entries, as os.ReadDir returns them (sorted by name).
DirEntry(child) == [kind |-> "dir", child |-> child, file |-> FileNull]
JsonEntry(file) == [kind |-> "json", child |-> 0, file |-> file]
\* a regular file whose extension is not .json
OtherEntry == [kind |-> "other", child |-> 0, file |-> FileInvalid]

Dir(readable, ents) == [readable |-> readable, entries |-> ents]

\* Directory 1 is the root.  root = {a/, f1.json, notes.txt, z/},
\* a = {f2.json, sub/}, z = {f3.json}, a/sub = {}.
Nested(f1, f2, f3, zReadable) ==
    <<Dir(TRUE, <<DirEntry(2), JsonEntry(f1), OtherEntry, DirEntry(3)>>),
      Dir(TRUE, <<JsonEntry(f2), DirEntry(4)>>),
      Dir(zReadable, <<JsonEntry(f3)>>),
      Dir(TRUE, <<>>)>>

\* The root holds n subdirectories; the first holds one mock file.
Wide(n) ==
    [d \in 1..(n + 1) |->
        IF d = 1 THEN Dir(TRUE, [i \in 1..n |-> DirEntry(i + 1)])
        ELSE IF d = 2 THEN Dir(TRUE, <<JsonEntry(FileItems)>>)
        ELSE Dir(TRUE, <<>>)]

\* The root holds one mock file, with one definition.
Single(def) == <<Dir(TRUE, <<JsonEntry(File(TRUE, TRUE, "object", TRUE, <<def>>))>>)>>

Trees ==
    {Nested(f1, f2, f3, r) : f1 \in {FileUsers, FileNull}, f2 \in Files,
                             f3 \in {FileDup, FileItems, FileInvalid},
                             r \in BOOLEAN}
    \cup {Wide(n) : n \in MAX_DIRECTORY_COUNT..(MAX_DIRECTORY_COUNT + MaxOverflow)}
    \cup {Single(DefBody(b)) : b \in Bodies}

-----------------------------------------------------------------------------
(* loadMockFromJson and loadMocks.                                         *)

\* json.Unmarshal(content, &listOfMocks): an array of well-typed objects
\* decodes to its definitions, null to a nil slice, anything else fails.
UnmarshalList(file) ==
    IF file.shape = "array" /\ file.typed THEN [ok |-> TRUE, defs |-> file.defs]
    ELSE IF file.shape = "null" THEN [ok |-> TRUE, defs |-> <<>>]
    ELSE [ok |-> FALSE, defs |-> <<>>]

\* json.Unmarshal(content, &mock): a well-typed object decodes to one definition.
UnmarshalOne(file) ==
    IF file.shape = "object" /\ file.typed THEN [ok |-> TRUE, defs |-> <<file.defs[1]>>]
    ELSE [ok |-> FALSE, defs |-> <<>>]

\* Mutant: a file that is not valid JSON is skipped instead of failing the load.
loadMockFromJsonLenient(file) ==
    IF ~file.readable THEN [mocks |-> <<>>, err |-> "ReadFileError"]
    ELSE IF ~file.valid THEN [mocks |-> <<>>, err |-> "nil"]
    ELSE IF UnmarshalList(file).ok THEN [mocks |-> UnmarshalList(file).defs, err |-> "nil"]
    ELSE IF UnmarshalOne(file).ok THEN [mocks |-> UnmarshalOne(file).defs, err |-> "nil"]
    ELSE [mocks |-> <<>>, err |-> "UnmarshalError"]

loadMockFromJson(file) ==
    IF ~file.readable THEN [mocks |-> <<>>, err |-> "ReadFileError"]
    ELSE IF ~file.valid THEN [mocks |-> <<>>, err |-> "InvalidJSON"]
    ELSE IF UnmarshalList(file).ok THEN [mocks |-> UnmarshalList(file).defs, err |-> "nil"]
    ELSE IF UnmarshalOne(file).ok THEN [mocks |-> UnmarshalOne(file).defs, err |-> "nil"]
    ELSE [mocks |-> <<>>, err |-> "UnmarshalError"]

\* `return nil, err`
ReturnError(err) == [mocks |-> <<>>, err |-> err]

\* `return mocks, nil`
ReturnMocks == [mocks |-> mocks, err |-> "nil"]

NoReturn == [mocks |-> <<>>, err |-> "none"]

\* The entries of `visited`: os.ReadDir(dir), and loadMockFromJson of the
\* index-th entry of dir.
ReadDirCall(dir) == [op |-> "ReadDir", dir |-> dir, index |-> 0]
LoadFileCall(dir, index) == [op |-> "loadMockFromJson", dir |-> dir, index |-> index]

\* The head of the outer loop: the loop condition, the limit check, the
\* receive from the channel and os.ReadDir.
LoadNextDir ==
    /\ pc = "load"
    /\ IF Len(dirStack) = 0
       THEN /\ ret' = ReturnMocks
            /\ pc' = "returned"
            /\ UNCHANGED <<dirStack, dirpath, entries, visited>>
       ELSE IF Len(dirStack) > MAX_DIRECTORY_COUNT
       THEN /\ ret' = ReturnError("DirectoryLimitExceeded")
            /\ pc' = "returned"
            /\ UNCHANGED <<dirStack, dirpath, entries, visited>>
       ELSE /\ dirpath' = Head(dirStack)
            /\ dirStack' = Tail(dirStack)
            /\ visited' = Append(visited, ReadDirCall(Head(dirStack)))
            /\ IF ~tree[Head(dirStack)].readable
               THEN /\ ret' = ReturnError("ReadDirError")
                    /\ pc' = "returned"
                    /\ UNCHANGED entries
               ELSE /\ entries' = tree[Head(dirStack)].entries
                    /\ pc' = IF tree[Head(dirStack)].entries = <<>> THEN "load" ELSE "entries"
                    /\ UNCHANGED ret
    /\ UNCHANGED <<tree, mocks, buildIdx, routeChain, mux, reqs>>

\* Mutant: the pending directories are kept as a stack, the newest first.
LoadSubdirectoryLifo ==
    /\ pc = "entries"
    /\ Head(entries).kind = "dir"
    /\ IF Len(dirStack) >= MAX_DIRECTORY_COUNT
       THEN /\ pc' = "blocked"
            /\ UNCHANGED <<dirStack, entries>>
       ELSE /\ dirStack' = <<Head(entries).child>> \o dirStack
            /\ entries' = Tail(entries)
            /\ pc' = IF Tail(entries) = <<>> THEN "load" ELSE "entries"
    /\ UNCHANGED <<tree, dirpath, mocks, visited, ret, buildIdx, routeChain, mux, reqs>>

\* One iteration of the inner loop, for an entry that is a directory: the
\* send on the channel.  The channel holds MAX_DIRECTORY_COUNT elements; a
\* send on a full channel blocks, and no other goroutine ever receives.
LoadSubdirectory ==
    /\ pc = "entries"
    /\ Head(entries).kind = "dir"
    /\ IF Len(dirStack) >= MAX_DIRECTORY_COUNT
       THEN /\ pc' = "blocked"
            /\ UNCHANGED <<dirStack, entries>>
       ELSE /\ dirStack' = Append(dirStack, Head(entries).child)
            /\ entries' = Tail(entries)
            /\ pc' = IF Tail(entries) = <<>> THEN "load" ELSE "entries"
    /\ UNCHANGED <<tree, dirpath, mocks, visited, ret, buildIdx, routeChain, mux, reqs>>

\* One iteration of the inner loop, for a regular file.
LoadFile ==
    /\ pc = "entries"
    /\ Head(entries).kind # "dir"
    /\ LET e == Head(entries)
           r == loadMockFromJson(e.file)
           index == Len(tree[dirpath].entries) - Len(entries) + 1
       IN /\ visited' = IF e.kind = "json" THEN Append(visited, LoadFileCall(dirpath, index))
                         ELSE visited
          /\ IF e.kind = "json" /\ r.err # "nil"
             THEN /\ ret' = ReturnError(r.err)
                  /\ pc' = "returned"
                  /\ UNCHANGED <<entries, mocks>>
             ELSE /\ mocks' = IF e.kind = "json" THEN mocks \o r.mocks ELSE mocks
                  /\ entries' = Tail(entries)
                  /\ pc' = IF Tail(entries) = <<>> THEN "load" ELSE "entries"
                  /\ UNCHANGED ret
    /\ UNCHANGED <<tree, dirStack, dirpath, buildIdx, routeChain, mux, reqs>>

-----------------------------------------------------------------------------
(* serialize and the response writer.                                      *)

RECURSIVE Join(_, _)
\* the strings of a sequence, separated by sep
Join(strs, sep) ==
    IF strs = <<>> THEN ""
    ELSE IF Len(strs) = 1 THEN strs[1]
    ELSE strs[1] \o sep \o Join(Tail(strs), sep)

\* The member names used by the inputs, in the byte order json.Marshal
\* sorts a map's keys by.
SortedKeys == <<"a", "b", "c">>

\* json.Marshal of a map[string]interface{} holding numbers: compact, keys sorted.
Marshal(value) ==
    LET IndexOf(k) == CHOOSE i \in 1..Len(value.keys) : value.keys[i] = k
        present == SelectSeq(SortedKeys, LAMBDA k : \E i \in 1..Len(value.keys) : value.keys[i] = k)
        member(k) == "\"" \o k \o "\":" \o ToString(value.items[IndexOf(k)])
    IN "{" \o Join([i \in 1..Len(present) |-> member(present[i])], ",") \o "}"

RECURSIVE DigitsOf(_)
\* the decimal digits of a natural number
DigitsOf(n) == IF n < 10 THEN <<n>> ELSE Append(DigitsOf(n \div 10), n % 10)

RECURSIVE StripZeros(_)
\* a digit sequence without its trailing zeros (the first digit is kept)
StripZeros(ds) ==
    IF Len(ds) > 1 /\ ds[Len(ds)] = 0 THEN StripZeros(SubSeq(ds, 1, Len(ds) - 1)) ELSE ds

\* fmt's %v of a float64 holding an integer: strconv's shortest 'g' format,
\* which switches to d.ddde+XX from exponent 6 on.
FormatG(n) ==
    LET m == IF n < 0 THEN -n ELSE n
        sign == IF n < 0 THEN "-" ELSE ""
        e == Len(DigitsOf(m)) - 1
        ds == StripZeros(DigitsOf(m))
        frac == Join([i \in 1..(Len(ds) - 1) |-> ToString(ds[i + 1])], "")
    IN IF e < 6 THEN ToString(n)
       ELSE sign \o ToString(ds[1]) \o (IF frac = "" THEN "" ELSE "." \o frac)
                 \o "e+" \o (IF e < 10 THEN "0" ELSE "") \o ToString(e)

\* fmt.Sprint of a decoded JSON value that is not a map.
Sprint(value) ==
    CASE value.kind = "nil" -> "<nil>"
      [] value.kind = "bool" -> IF value.b THEN "true" ELSE "false"
      [] value.kind = "number" -> FormatG(value.n)
      [] value.kind = "string" -> value.s
      [] value.kind = "array" ->
            "[" \o Join([i \in 1..Len(value.items) |-> FormatG(value.items[i])], " ") \o "]"

\* Mutant: every body is JSON-encoded, whatever its kind.
serializeAsJson(data) ==
    CASE data.kind = "object" -> Marshal(data)
      [] data.kind = "nil" -> "null"
      [] data.kind = "bool" -> IF data.b THEN "true" ELSE "false"
      [] data.kind = "number" -> ToString(data.n)
      [] data.kind = "string" -> "\"" \o data.s \o "\""
      [] data.kind = "array" ->
            "[" \o Join([i \in 1..Len(data.items) |-> ToString(data.items[i])], ",") \o "]"

serialize(data) ==
    IF data.kind = "object" THEN Marshal(data) ELSE Sprint(data)

\* textproto.CanonicalMIMEHeaderKey, on the header names the inputs use.
CanonicalHeaderKey(key) ==
    IF key = "content-type" THEN "Content-Type" ELSE key

CanonicalNames == {"Content-Type", "Server", "X-Trace"}

\* A fresh http.ResponseWriter: no header, no status line, no body written.
\* calls lists the writes made to it, in order.
NewResponse ==
    [header |-> [n \in CanonicalNames |-> <<>>], wroteHeader |-> FALSE,
     status |-> 0, body |-> "", calls |-> <<>>]

\* w.Header().Add(key, value)
HeaderAdd(w, key, value) ==
    [w EXCEPT !.header[CanonicalHeaderKey(key)] = Append(@, value),
              !.calls = Append(@, "Header.Add")]

\* w.WriteHeader(code): the first call sets the status line, a later one is ignored.
WriteHeader(w, code) ==
    [w EXCEPT !.status = IF w.wroteHeader THEN @ ELSE code,
              !.wroteHeader = TRUE,
              !.calls = Append(@, "WriteHeader")]

\* w.Write(bytes): writes the status line 200 first if none was written.
Write(w, bytes) ==
    [w EXCEPT !.status = IF w.wroteHeader THEN @ ELSE 200,
              !.wroteHeader = TRUE,
              !.body = @ \o bytes,
              !.calls = Append(@, "Write")]

-----------------------------------------------------------------------------
(* handleMockResponse: the responder built for one definition.             *)

\* Mutant: the status code is used as loaded, 0 included.
StatusCodeRaw(mock) == mock.Response.StatusCode

\* The values computed when the responder is built.
StatusCodeOf(mock) ==
    IF mock.Response.StatusCode = 0 THEN 200 ELSE mock.Response.StatusCode

handleMockResponse(mock) ==
    [statusCode |-> StatusCodeOf(mock),
     serializedBody |-> serialize(mock.Response.Body),
     Headers |-> mock.Response.Headers]

BaseHeaders ==
    [k \in {"Content-Type", "Server"} |->
        IF k = "Content-Type" THEN "application/json" ELSE SERVER_NAME]

\* The `headers` map of the responder after the overlay loop.
MergedHeaders(declared) ==
    [k \in DOMAIN BaseHeaders \cup DOMAIN declared |->
        IF k \in DOMAIN declared THEN declared[k] ELSE BaseHeaders[k]]

\* The orders in which `range` may iterate over a map with these keys.
IterationOrders(keys) ==
    {o \in [1..Cardinality(keys) -> keys] : \A i, j \in DOMAIN o : i # j => o[i] # o[j]}

RECURSIVE AddAll(_, _, _)
\* The loop `for key, value := range headers { w.Header().Add(key, value) }`,
\* iterating in the given order.
AddAll(w, headers, order) ==
    IF order = <<>> THEN w
    ELSE AddAll(HeaderAdd(w, Head(order), headers[Head(order)]), headers, Tail(order))

\* Mutant: the status line is written before the headers are added.
RespondStatusFirst(w, responder, order) ==
    Write(AddAll(WriteHeader(w, responder.statusCode),
                 MergedHeaders(responder.Headers), order),
          responder.serializedBody)

\* The responder's body: headers, status line, body.
Respond(w, responder, order) ==
    Write(WriteHeader(AddAll(w, MergedHeaders(responder.Headers), order),
                      responder.statusCode),
          responder.serializedBody)

-----------------------------------------------------------------------------
(* main and generateMockHandler: the startup build of the route table.     *)

\* The dispatcher closure created for an endpoint; it captures mock.Endpoint.
Dispatcher(endpoint) == [Endpoint |-> endpoint]

NoHandler == [Endpoint |-> "nil"]

ChainMiddleware(mock) == [Method |-> mock.Method, Handler |-> handleMockResponse(mock)]

\* Mutant: the new pair is put in front of the list.
PrependMiddleware(middleware, mock) == <<ChainMiddleware(mock)>> \o middleware

\* `append(chain.Middleware, ...)`
AppendMiddleware(middleware, mock) == Append(middleware, ChainMiddleware(mock))

\* routeChain[endpoint] = chain
Store(table, endpoint, chain) ==
    [e \in DOMAIN table \cup {endpoint} |-> IF e = endpoint THEN chain ELSE table[e]]

\* Mutant: a dispatcher is returned for every definition.
AlwaysDispatcher(table, mock) == Dispatcher(mock.Endpoint)

\* The handler generateMockHandler returns for a definition whose endpoint is
\* already in the table (nil) or not yet (the new dispatcher).
ReturnedHandler(table, mock) ==
    IF mock.Endpoint \in DOMAIN table THEN NoHandler ELSE Dispatcher(mock.Endpoint)

\* Mutant: a definition for an endpoint already in the table replaces the
\* endpoint's pairs.
generateMockHandlerOverride(table, mock) ==
    [routeChain |->
        Store(table, mock.Endpoint,
              [Handler |-> Dispatcher(mock.Endpoint),
               Middleware |-> AppendMiddleware(<<>>, mock)]),
     handler |-> ReturnedHandler(table, mock)]

\* generateMockHandler(mock): the route table it leaves and the handler it returns.
generateMockHandler(table, mock) ==
    IF mock.Endpoint \in DOMAIN table
    THEN [routeChain |->
            Store(table, mock.Endpoint,
                  [Handler |-> table[mock.Endpoint].Handler,
                   Middleware |-> AppendMiddleware(table[mock.Endpoint].Middleware, mock)]),
          handler |-> ReturnedHandler(table, mock)]
    ELSE [routeChain |->
            Store(table, mock.Endpoint,
                  [Handler |-> Dispatcher(mock.Endpoint),
                   Middleware |-> AppendMiddleware(<<>>, mock)]),
          handler |-> ReturnedHandler(table, mock)]

\* mux.HandleFunc(pattern, handler)
HandleFunc(m, pattern, handler) == Append(m, [pattern |-> pattern, handler |-> handler])

\* main, after loadMocks returned: log.Fatalf on an error.
MainCheckError ==
    /\ pc = "returned"
    /\ pc' = IF ret.err # "nil" THEN "fatal" ELSE "build"
    /\ UNCHANGED <<tree, loaderVars, buildIdx, routeChain, mux, reqs>>

\* One iteration of `for _, mock := range mocks`.
BuildRoute ==
    /\ pc = "build"
    /\ buildIdx < Len(ret.mocks)
    /\ LET mock == ret.mocks[buildIdx + 1]
           g == generateMockHandler(routeChain, mock)
       IN /\ routeChain' = g.routeChain
          /\ mux' = IF g.handler # NoHandler
                    THEN HandleFunc(mux, mock.Endpoint, g.handler)
                    ELSE mux
    /\ buildIdx' = buildIdx + 1
    /\ UNCHANGED <<tree, pc, loaderVars, reqs>>

\* http.ListenAndServe: the listener starts serving, or fails to bind and
\* log.Fatal ends the process.
ListenAndServe ==
    /\ pc = "build"
    /\ buildIdx = Len(ret.mocks)
    /\ \E bound \in BOOLEAN : pc' = IF bound THEN "serving" ELSE "fatal"
    /\ UNCHANGED <<tree, loaderVars, buildIdx, routeChain, mux, reqs>>

-----------------------------------------------------------------------------
(* The dispatcher and its next closure: one request.                       *)

Slots == 1..MaxRequests

Idle ==
    [pc |-> "idle", Method |-> "", Pattern |-> "", middlewares |-> <<>>,
     currentMidleware |-> -1, err |-> "nil", w |-> NewResponse,
     nextCalls |-> 0, invoked |-> <<>>]

\* Mutant: the dispatcher takes the first pair off the endpoint's entry when
\* it reads it.
DispatchConsuming(s) ==
    /\ pc = "serving"
    /\ reqs[s].pc = "idle"
    /\ \E i \in DOMAIN mux, method \in RequestMethods :
          LET chain == routeChain[mux[i].handler.Endpoint]
          IN /\ reqs' = [reqs EXCEPT ![s] =
                          [Idle EXCEPT !.pc = "next",
                                       !.Method = method,
                                       !.Pattern = mux[i].pattern,
                                       !.middlewares = chain.Middleware]]
             /\ routeChain' = Store(routeChain, mux[i].handler.Endpoint,
                                    [chain EXCEPT !.Middleware = Tail(@)])
    /\ UNCHANGED <<tree, pc, loaderVars, buildIdx, mux>>

\* Mutant: the dispatcher scans the pair list it was created with, the
\* endpoint's first pair only.
DispatchCaptured(s) ==
    /\ pc = "serving"
    /\ reqs[s].pc = "idle"
    /\ \E i \in DOMAIN mux, method \in RequestMethods :
          reqs' = [reqs EXCEPT ![s] =
                      [Idle EXCEPT !.pc = "next",
                                   !.Method = method,
                                   !.Pattern = mux[i].pattern,
                                   !.middlewares =
                                       SubSeq(routeChain[mux[i].handler.Endpoint].Middleware, 1, 1)]]
    /\ UNCHANGED <<tree, pc, loaderVars, buildIdx, routeChain, mux>>

\* The ServeMux hands a request for a registered pattern to the pattern's
\* dispatcher, which reads the endpoint's pairs, sets the index to -1 and
\* calls next(nil).
Dispatch(s) ==
    /\ pc = "serving"
    /\ reqs[s].pc = "idle"
    /\ \E i \in DOMAIN mux, method \in RequestMethods :
          reqs' = [reqs EXCEPT ![s] =
                      [Idle EXCEPT !.pc = "next",
                                   !.Method = method,
                                   !.Pattern = mux[i].pattern,
                                   !.middlewares = routeChain[mux[i].handler.Endpoint].Middleware]]
    /\ UNCHANGED <<tree, pc, loaderVars, buildIdx, routeChain, mux>>

\* Mutant: the error is answered with 500 but next does not return: the scan
\* goes on.
ChainErrorFallThrough(q) ==
    [q EXCEPT !.w = WriteHeader(@, 500), !.currentMidleware = @ + 1,
              !.err = "nil", !.pc = "next"]

\* next(err) with err != nil: log, write 500, return.
ChainError(q) ==
    [q EXCEPT !.w = WriteHeader(@, 500), !.pc = "done"]

\* Mutant: the end of the list is reached and nothing is written.
ChainEndSilent(q) == [q EXCEPT !.pc = "done"]

\* The index has passed the last pair: write 404.
ChainEnd(q) ==
    [q EXCEPT !.w = WriteHeader(@, 404), !.pc = "done"]

\* Mutant: the responder writes nothing and calls next with an error.
InvokeFailing(q, order) ==
    [q EXCEPT !.invoked = Append(@, q.currentMidleware),
              !.err = "ResponderFailure",
              !.pc = "next"]

\* Mutant: the responder calls next(nil) after it wrote its response.
InvokeAndContinue(q, order) ==
    [q EXCEPT !.w = Respond(@, q.middlewares[q.currentMidleware + 1].Handler, order),
              !.invoked = Append(@, q.currentMidleware),
              !.err = "nil",
              !.pc = "next"]

\* The pair at the index has the request's method: its responder is invoked
\* and returns, then next and the dispatcher return.
Invoke(q, order) ==
    [q EXCEPT !.w = Respond(@, q.middlewares[q.currentMidleware + 1].Handler, order),
              !.invoked = Append(@, q.currentMidleware),
              !.pc = "done"]

\* Mutant: a skipped pair adds the base headers to the response.
SkipWithBaseHeaders(q) ==
    [q EXCEPT !.w = AddAll(@, BaseHeaders, <<"Content-Type", "Server">>),
              !.err = "nil", !.pc = "next"]

\* Mutant: the index is put back when a pair is skipped, so the same pair is
\* compared again.
SkipWithoutAdvance(q) ==
    [q EXCEPT !.currentMidleware = @ - 1, !.err = "nil", !.pc = "next"]

\* The pair at the index has another method: next(nil) is called again.
Skip(q) == [q EXCEPT !.err = "nil", !.pc = "next"]

\* One call of next(err) by request q, the responder iterating its header
\* map in the given order if it is invoked.
NextCall(q, order) ==
    LET called == [q EXCEPT !.nextCalls = @ + 1]
        advanced == [called EXCEPT !.currentMidleware = @ + 1]
    IN IF q.err # "nil" THEN ChainError(called)
       ELSE IF advanced.currentMidleware >= Len(q.middlewares) THEN ChainEnd(advanced)
       ELSE IF q.Method = q.middlewares[advanced.currentMidleware + 1].Method
       THEN Invoke(advanced, order)
       ELSE Skip(advanced)

\* The keys the responder at the next index would iterate over.
NextKeys(q) ==
    IF /\ q.err = "nil"
       /\ q.currentMidleware + 1 < Len(q.middlewares)
       /\ q.Method = q.middlewares[q.currentMidleware + 2].Method
    THEN DOMAIN MergedHeaders(q.middlewares[q.currentMidleware + 2].Handler.Headers)
    ELSE {}

\* Mutant: the scan index is one variable per endpoint, shared by the requests
\* being dispatched for it.
nextSharedIndex(s) ==
    /\ reqs[s].pc = "next"
    /\ \E order \in IterationOrders(NextKeys(reqs[s])) :
          LET q == NextCall(reqs[s], order)
          IN reqs' = [t \in Slots |->
                        IF t = s THEN q
                        ELSE IF reqs[t].pc = "next" /\ reqs[t].Pattern = reqs[s].Pattern
                        THEN [reqs[t] EXCEPT !.currentMidleware = q.currentMidleware]
                        ELSE reqs[t]]
    /\ UNCHANGED <<tree, pc, loaderVars, buildIdx, routeChain, mux>>

next(s) ==
    /\ reqs[s].pc = "next"
    /\ \E order \in IterationOrders(NextKeys(reqs[s])) :
          reqs' = [reqs EXCEPT ![s] = NextCall(reqs[s], order)]
    /\ UNCHANGED <<tree, pc, loaderVars, buildIdx, routeChain, mux>>

\* A pair's Handler that signals an internal failure: next(nil) reaches a pair
\* with the request's method and invokes its Handler, which writes nothing and
\* calls next with a non-nil error.  handleMockResponse builds no such Handler;
\* the ChainMiddleware type admits one.
FailingResponder(s) ==
    /\ reqs[s].pc = "next"
    /\ NextKeys(reqs[s]) # {}
    /\ reqs' = [reqs EXCEPT ![s] =
                   [@ EXCEPT !.nextCalls = @ + 1,
                             !.currentMidleware = @ + 1,
                             !.invoked = Append(@, reqs[s].currentMidleware + 1),
                             !.err = "ResponderFailure"]]
    /\ UNCHANGED <<tree, pc, loaderVars, buildIdx, routeChain, mux>>

\* The dispatcher returns and the connection is ready for another request.
Finish(s) ==
    /\ reqs[s].pc = "done"
    /\ reqs' = [reqs EXCEPT ![s] = Idle]
    /\ UNCHANGED <<tree, pc, loaderVars, buildIdx, routeChain, mux>>

-----------------------------------------------------------------------------
(* The specification.                                                      *)

Init ==
    /\ tree \in Trees
    /\ pc = "load"
    /\ dirStack = <<1>>
    /\ dirpath = 1
    /\ entries = <<>>
    /\ mocks = <<>>
    /\ visited = <<>>
    /\ ret = NoReturn
    /\ buildIdx = 0
    /\ routeChain = [e \in {} |-> 0]
    /\ mux = <<>>
    /\ reqs = [s \in Slots |-> Idle]

Next ==
    \/ LoadNextDir
    \/ LoadSubdirectory
    \/ LoadFile
    \/ MainCheckError
    \/ BuildRoute
    \/ ListenAndServe
    \/ \E s \in Slots : Dispatch(s)
    \/ \E s \in Slots : next(s)
    \/ \E s \in Slots : Finish(s)

Spec == Init /\ [][Next]_vars

\* Each request runs in its own goroutine, which the Go scheduler keeps
\* running: a pending call of next is eventually executed.
Fairness == \A s \in Slots : WF_vars(next(s))

SpecLive == Init /\ [][Next]_vars /\ Fairness

\* The program with pairs whose Handler may signal a failure to the chain.
NextFail == Next \/ \E s \in Slots : FailingResponder(s)

SpecFail == Init /\ [][NextFail]_vars

-----------------------------------------------------------------------------
(* Vocabulary of the properties.                                           *)

\* The loaded definitions naming an endpoint, in load order.
DefsFor(endpoint) == SelectSeq(ret.mocks, LAMBDA d : d.Endpoint = endpoint)

\* Whether some definition in defs has the method.
Matches(defs, method) == \E i \in DOMAIN defs : defs[i].Method = method

\* The smallest index of a definition in defs with the method.
FirstMatch(defs, method) ==
    CHOOSE i \in DOMAIN defs :
        /\ defs[i].Method = method
        /\ \A j \in 1..(i - 1) : defs[j].Method # method

\* The responses a responder built from the definition may write to a fresh
\* response writer.
Renders(def) ==
    {Respond(NewResponse, handleMockResponse(def), o) :
        o \in IterationOrders(DOMAIN MergedHeaders(def.Response.Headers))}

Done(s) == reqs[s].pc = "done"

\* How many times a call occurs in a response's list of calls.
Count(calls, name) == Len(SelectSeq(calls, LAMBDA c : c = name))

-----------------------------------------------------------------------------
(* C1 -- first match wins.                                                 *)

\* C1: a request with method m to an endpoint whose definitions are D1..DN in
\* load order is answered by the responder of the first Di with method m
\* (its status, headers and body), and by no other responder.
C1_FirstMatchAnswers ==
    \A s \in Slots :
        LET q == reqs[s]
            defs == DefsFor(q.Pattern)
        IN (Done(s) /\ Matches(defs, q.Method)) =>
              /\ q.invoked = <<FirstMatch(defs, q.Method) - 1>>
              /\ q.w \in Renders(defs[FirstMatch(defs, q.Method)])

\* A request answered while a later definition with the same endpoint and
\* method is loaded.
C1_Witness ==
    \E s \in Slots :
        LET q == reqs[s]
            defs == DefsFor(q.Pattern)
        IN /\ Done(s)
           /\ \E i, j \in DOMAIN defs :
                 i < j /\ defs[i].Method = q.Method /\ defs[j].Method = q.Method
           /\ q.invoked # <<>>

-----------------------------------------------------------------------------
(* C2 -- no match: 404.                                                    *)

\* C2: a request whose method is the method of none of the endpoint's pairs
\* ends with status 404 and an empty body, the scan index having reached the
\* end of the pair list.
C2_NoMatchIs404 ==
    \A s \in Slots :
        LET q == reqs[s]
            pairs == routeChain[q.Pattern].Middleware
        IN (Done(s) /\ \A i \in DOMAIN pairs : pairs[i].Method # q.Method) =>
              /\ q.w.status = 404
              /\ q.w.body = ""
              /\ q.currentMidleware = Len(pairs)
              /\ q.invoked = <<>>

\* A request that scanned two pairs and matched none.
C2_Witness ==
    \E s \in Slots :
        /\ Done(s)
        /\ reqs[s].Method = "DELETE"
        /\ reqs[s].currentMidleware >= 2
        /\ reqs[s].w.status = 404

-----------------------------------------------------------------------------
(* C3 -- exactly one outcome per request.                                  *)

\* The outcome of a finished request is a rendered response of exactly one
\* responder, or a bare 404; either way the status line was written once.
OneOutcome(q) ==
    /\ Count(q.w.calls, "WriteHeader") = 1
    /\ \/ /\ Len(q.invoked) = 1
          /\ Count(q.w.calls, "Write") = 1
       \/ /\ q.invoked = <<>>
          /\ q.w.status = 404
          /\ q.w.calls = <<"WriteHeader">>

\* C3: every request handled by a dispatcher has exactly one outcome, nothing
\* is written before it, and once a responder ran the scan does not advance:
\* the request only finishes.
C3_ExactlyOneOutcome ==
    /\ [](\A s \in Slots :
            /\ Done(s) => OneOutcome(reqs[s])
            /\ reqs[s].pc = "next" => reqs[s].w = NewResponse /\ reqs[s].invoked = <<>>)
    /\ [][\A s \in Slots :
            (reqs[s].invoked # <<>> /\ reqs'[s] # reqs[s]) => reqs'[s] = Idle]_vars

\* Both outcomes at once: one request rendered, another answered 404.
C3_Witness ==
    \E s, t \in Slots :
        /\ Done(s) /\ Len(reqs[s].invoked) = 1
        /\ Done(t) /\ reqs[t].invoked = <<>> /\ reqs[t].w.status = 404

-----------------------------------------------------------------------------
(* C4 -- the directory limit.                                              *)

\* C4: when a directory is to be queued while MAX_DIRECTORY_COUNT directories
\* are already pending, loadMocks returns the DirectoryLimitExceeded error and
\* no definitions.
C4_LimitExceededReturnsError ==
    [][(/\ pc = "entries"
        /\ Head(entries).kind = "dir"
        /\ Len(dirStack) >= MAX_DIRECTORY_COUNT)
       => (/\ pc' = "returned"
           /\ ret' = [mocks |-> <<>>, err |-> "DirectoryLimitExceeded"])]_vars

\* loadMocks stopped at the send on the full channel, nothing returned.
C4_Witness ==
    /\ pc = "blocked"
    /\ Len(dirStack) = MAX_DIRECTORY_COUNT
    /\ ret = NoReturn

-----------------------------------------------------------------------------
(* C5 -- load errors abort startup.                                        *)

\* A file loadMocks cannot turn into definitions: unreadable, not valid JSON,
\* or of neither shape.
Unloadable(file) ==
    \/ ~file.readable
    \/ ~file.valid
    \/ ~(\/ file.shape = "null"
         \/ file.shape \in {"array", "object"} /\ file.typed)

Failed == ret.err \notin {"nil", "none"}

\* C5: a failed directory read or an unloadable .json file makes loadMocks
\* return an error and no definitions, whatever was loaded before; main then
\* exits: no route is registered and the listener never starts.
C5_LoadFailsFast ==
    /\ [][(pc = "entries" /\ Head(entries).kind = "json" /\ Unloadable(Head(entries).file))
          => (pc' = "returned" /\ ret'.err \notin {"nil", "none"} /\ ret'.mocks = <<>>)]_vars
    /\ [][(pc = "load" /\ dirStack # <<>> /\ ~tree[Head(dirStack)].readable)
          => (pc' = "returned" /\ ret'.err = "ReadDirError" /\ ret'.mocks = <<>>)]_vars
    /\ [](Failed =>
            /\ ret.mocks = <<>>
            /\ pc \in {"returned", "fatal"}
            /\ DOMAIN routeChain = {}
            /\ mux = <<>>
            /\ \A s \in Slots : reqs[s] = Idle)
    /\ [][(Failed /\ pc = "returned") => pc' = "fatal"]_vars
    /\ [][pc = "fatal" => pc' = "fatal"]_vars

\* Startup aborted on an invalid file after valid definitions were loaded.
C5_Witness ==
    /\ pc = "fatal"
    /\ ret.err = "InvalidJSON"
    /\ mocks # <<>>

-----------------------------------------------------------------------------
(* C6 -- shape of the route table.                                         *)

\* The endpoints named by the first n loaded definitions.
Named(n) == {ret.mocks[i].Endpoint : i \in 1..n}

\* The first n loaded definitions naming the endpoint, in load order.
DefsAmong(n, endpoint) == SelectSeq(SubSeq(ret.mocks, 1, n), LAMBDA d : d.Endpoint = endpoint)

\* C6: once the build consumed n definitions, the keys of the table and the
\* patterns of the mux are the endpoints those definitions name, each pattern
\* registered once with its endpoint's dispatcher, and every entry holds one
\* pair per definition of its endpoint, hence at least one.
C6_RouteTableShape ==
    (ret.err = "nil" /\ pc \in {"build", "serving", "fatal"}) =>
        /\ DOMAIN routeChain = Named(buildIdx)
        /\ {mux[i].pattern : i \in DOMAIN mux} = Named(buildIdx)
        /\ Len(mux) = Cardinality(Named(buildIdx))
        /\ \A i \in DOMAIN mux :
              /\ mux[i].handler = Dispatcher(mux[i].pattern)
              /\ routeChain[mux[i].pattern].Handler = mux[i].handler
        /\ \A e \in Named(buildIdx) :
              /\ Len(routeChain[e].Middleware) >= 1
              /\ Len(routeChain[e].Middleware) = Len(DefsAmong(buildIdx, e))
              /\ \A i \in DOMAIN routeChain[e].Middleware :
                    routeChain[e].Middleware[i].Method = DefsAmong(buildIdx, e)[i].Method

\* Serving two endpoints, one of them with two pairs of different methods.
C6_Witness ==
    /\ pc = "serving"
    /\ Len(mux) = 2
    /\ \E e \in DOMAIN routeChain :
          /\ Len(routeChain[e].Middleware) >= 2
          /\ routeChain[e].Middleware[1].Method # routeChain[e].Middleware[2].Method

-----------------------------------------------------------------------------
(* C7 -- construct, then freeze.                                           *)

\* C7: the route table and the mux are written only by the build loop, with
\* no request in flight; once the listener serves they never change and the
\* server keeps serving; a request is only ever in flight while serving.
C7_ConstructThenFreeze ==
    /\ [][(routeChain' # routeChain \/ mux' # mux)
          => (pc = "build" /\ pc' = "build" /\ \A s \in Slots : reqs[s] = Idle)]_vars
    /\ [][pc = "serving"
          => (routeChain' = routeChain /\ mux' = mux /\ pc' = "serving")]_vars
    /\ [](\A s \in Slots :
            reqs[s].pc # "idle" => (pc = "serving" /\ buildIdx = Len(ret.mocks)))

\* Two requests in the middle of their scans of a table with three pairs.
C7_Witness ==
    /\ \A s \in Slots : reqs[s].pc = "next" /\ reqs[s].currentMidleware >= 0
    /\ \E e \in DOMAIN routeChain : Len(routeChain[e].Middleware) = 3

-----------------------------------------------------------------------------
(* C8 -- the status is never 0.                                            *)

\* The definition whose responder answered a finished request.
AnsweredBy(q) == DefsFor(q.Pattern)[q.invoked[1] + 1]

\* C8: a responder never writes status 0: it writes 200 for a definition
\* whose statusCode is 0 (or omitted) and the definition's statusCode otherwise.
C8_StatusNeverZero ==
    \A s \in Slots :
        (Done(s) /\ reqs[s].invoked # <<>>) =>
            /\ reqs[s].w.status # 0
            /\ AnsweredBy(reqs[s]).Response.StatusCode = 0 => reqs[s].w.status = 200
            /\ AnsweredBy(reqs[s]).Response.StatusCode # 0 =>
                  reqs[s].w.status = AnsweredBy(reqs[s]).Response.StatusCode

\* One request answered for a definition with statusCode 0, another for a
\* definition with statusCode 201.
C8_Witness ==
    \E s, t \in Slots :
        /\ Done(s) /\ reqs[s].invoked # <<>>
        /\ AnsweredBy(reqs[s]).Response.StatusCode = 0
        /\ Done(t) /\ reqs[t].invoked # <<>>
        /\ AnsweredBy(reqs[t]).Response.StatusCode = 201

-----------------------------------------------------------------------------
(* C9 -- the rendered headers.                                             *)

\* C9: in a rendered response every header the definition declares has the
\* definition's value and only that value, and a base header the definition
\* does not declare has its base value.
C9_HeadersOverlay ==
    \A s \in Slots :
        (Done(s) /\ reqs[s].invoked # <<>>) =>
            LET declared == AnsweredBy(reqs[s]).Response.Headers
                rendered == reqs[s].w.header
            IN /\ \A k \in DOMAIN declared :
                     rendered[CanonicalHeaderKey(k)] = <<declared[k]>>
               /\ \A k \in DOMAIN BaseHeaders :
                     (\A d \in DOMAIN declared : CanonicalHeaderKey(d) # k)
                        => rendered[k] = <<BaseHeaders[k]>>

\* A response rendered for a definition that declares content-type: the
\* Content-Type header holds the base value and the declared one.
C9_Witness ==
    \E s \in Slots :
        /\ Done(s) /\ reqs[s].invoked # <<>>
        /\ "content-type" \in DOMAIN AnsweredBy(reqs[s]).Response.Headers
        /\ Len(reqs[s].w.header["Content-Type"]) = 2

-----------------------------------------------------------------------------
(* C10 -- a failure signalled to the chain.                                *)

-----------------------------------------------------------------------------
(* C11 -- the rendered body.                                               *)

\* The bytes expected for each body the inputs declare: compact JSON for an
\* object, the plain text of anything else.
ExpectedBody(body) ==
    CASE body = JObj(<<>>, <<>>) -> "{}"
      [] body = JObj(<<"a">>, <<1>>) -> "{\"a\":1}"
      [] body = JObj(<<"b", "a">>, <<2, 1>>) -> "{\"a\":1,\"b\":2}"
      [] body = JObj(<<"c", "a">>, <<1000000, -3>>) -> "{\"a\":-3,\"c\":1000000}"
      [] body = JStr("ok") -> "ok"
      [] body = JStr("") -> ""
      [] body = JNum(0) -> "0"
      [] body = JNum(1) -> "1"
      [] body = JNum(-42) -> "-42"
      [] body = JNum(1000000) -> "1e+06"
      [] body = JNum(1250000) -> "1.25e+06"
      [] body = JBool(TRUE) -> "true"
      [] body = JBool(FALSE) -> "false"
      [] body = JArr(<<>>) -> "[]"
      [] body = JArr(<<1, 2>>) -> "[1 2]"
      [] body = JNull -> "<nil>"

\* C11: the body a responder writes is the compact JSON of the definition's
\* body when that is an object, and otherwise its plain text, a string as its
\* own characters without quotes.
C11_BodyRendering ==
    \A s \in Slots :
        (Done(s) /\ reqs[s].invoked # <<>>) =>
            LET body == AnsweredBy(reqs[s]).Response.Body
            IN /\ reqs[s].w.body = ExpectedBody(body)
               /\ body.kind = "string" => reqs[s].w.body = body.s

\* One response rendered from an object, another from the string "ok".
C11_Witness ==
    \E s, t \in Slots :
        /\ Done(s) /\ reqs[s].invoked # <<>>
        /\ AnsweredBy(reqs[s]).Response.Body.kind = "object"
        /\ reqs[s].w.body = "{\"a\":1,\"b\":2}"
        /\ Done(t) /\ reqs[t].invoked # <<>>
        /\ AnsweredBy(reqs[t]).Response.Body = JStr("ok")
        /\ reqs[t].w.body = "ok"

-----------------------------------------------------------------------------
(* C12 -- the chain terminates.                                            *)

\* C12: the scan index starts at -1 and never exceeds the number of pairs,
\* every call of next advances it by exactly one (so no pair is compared
\* twice), next is called at most len(pairs) + 1 times, a pending call of
\* next can always run, and a request whose chain is running finishes (the
\* slots are interchangeable; the last conjunct follows the first one).
C12_ChainTerminates ==
    /\ [](\A s \in Slots :
            /\ reqs[s].currentMidleware >= -1
            /\ reqs[s].currentMidleware <= Len(reqs[s].middlewares)
            /\ reqs[s].nextCalls = reqs[s].currentMidleware + 1
            /\ reqs[s].nextCalls <= Len(reqs[s].middlewares) + 1
            /\ reqs[s].pc = "next" => reqs[s].currentMidleware < Len(reqs[s].middlewares)
            /\ reqs[s].pc = "next" => ENABLED next(s))
    /\ [][\A s \in Slots :
            (reqs[s].pc = "next" /\ reqs'[s] # reqs[s]) =>
                /\ reqs'[s].currentMidleware = reqs[s].currentMidleware + 1
                /\ reqs'[s].nextCalls = reqs[s].nextCalls + 1]_vars
    /\ (reqs[1].pc = "next") ~> (reqs[1].pc = "done")

\* A request that finished with its len(pairs) + 1-th call of next, over
\* three pairs.
C12_Witness ==
    \E s \in Slots :
        /\ Done(s)
        /\ Len(reqs[s].middlewares) = 3
        /\ reqs[s].nextCalls = 4

-----------------------------------------------------------------------------
(* C13 -- concurrent requests do not interfere.                            *)

RECURSIVE Scan(_, _, _)
\* The outcome of a request handled alone: the first pair from position i on
\* with the method answers, or 404.
Scan(pairs, method, i) ==
    IF i > Len(pairs) THEN [invoked |-> <<>>, status |-> 404, body |-> ""]
    ELSE IF pairs[i].Method = method
    THEN [invoked |-> <<i - 1>>, status |-> pairs[i].Handler.statusCode,
          body |-> pairs[i].Handler.serializedBody]
    ELSE Scan(pairs, method, i + 1)

Outcome(q) == [invoked |-> q.invoked, status |-> q.w.status, body |-> q.w.body]

\* C13: whatever the interleaving, a finished request has the outcome it would
\* have alone, a step of one request changes no other request, a request's
\* index moves only by its own steps, and a pending call of next never waits.
C13_RequestsIndependent ==
    /\ [](\A s \in Slots :
            /\ Done(s) =>
                  Outcome(reqs[s]) = Scan(routeChain[reqs[s].Pattern].Middleware,
                                          reqs[s].Method, 1)
            /\ reqs[s].pc = "next" => ENABLED next(s))
    /\ [][\A s, t \in Slots :
            (s # t /\ reqs'[s] # reqs[s]) => reqs'[t] = reqs[t]]_vars

\* One request answered by the second pair of an endpoint while another
\* request for the same endpoint is still at the first pair.
C13_Witness ==
    \E s, t \in Slots :
        /\ s # t
        /\ reqs[s].Pattern = reqs[t].Pattern
        /\ Done(s) /\ reqs[s].invoked = <<1>>
        /\ reqs[t].pc = "next" /\ reqs[t].currentMidleware = 0

-----------------------------------------------------------------------------
(* C14 -- the pairs the dispatcher sees.                                   *)

\* The pair a definition is registered as: its method and its responder.
PairOf(def) ==
    [Method |-> def.Method,
     Handler |-> [statusCode |-> IF def.Response.StatusCode = 0 THEN 200
                                 ELSE def.Response.StatusCode,
                  serializedBody |-> ExpectedBody(def.Response.Body),
                  Headers |-> def.Response.Headers]]

\* C14: the pair list a dispatcher reads when a request arrives is, pair for
\* pair and in load order, the list of the loaded definitions naming its
\* endpoint, those loaded after the endpoint's first definition included.
C14_PairsAreDefinitionsInOrder ==
    \A s \in Slots :
        reqs[s].pc # "idle" =>
            /\ Len(reqs[s].middlewares) = Len(DefsFor(reqs[s].Pattern))
            /\ \A i \in DOMAIN reqs[s].middlewares :
                  reqs[s].middlewares[i] = PairOf(DefsFor(reqs[s].Pattern)[i])

\* A request being dispatched over three pairs, the third loaded from another
\* file than the first.
C14_Witness ==
    \E s \in Slots :
        /\ reqs[s].pc = "next"
        /\ Len(reqs[s].middlewares) = 3
        /\ reqs[s].middlewares[3] = PairOf(DefUsersGetDup)

-----------------------------------------------------------------------------
(* C15 -- the traversal of a tree that loads.                              *)

RECURSIVE Concat(_)
\* the concatenation of a sequence of sequences
Concat(seqs) == IF seqs = <<>> THEN <<>> ELSE Head(seqs) \o Concat(Tail(seqs))

\* The positions of a directory's entries of a kind, in the directory's order.
Positions(dir, kind) ==
    SelectSeq([i \in 1..Len(tree[dir].entries) |-> i],
              LAMBDA i : tree[dir].entries[i].kind = kind)

\* The subdirectories of a directory, in the directory's order.
Children(dir) ==
    LET at == Positions(dir, "dir")
    IN  [k \in 1..Len(at) |-> tree[dir].entries[at[k]].child]

RECURSIVE LevelsFrom(_)
\* The directories of a level followed by those of the deeper levels, each
\* level in the order of its parents and, under a parent, of its entries.
LevelsFrom(level) ==
    IF level = <<>> THEN <<>>
    ELSE level \o LevelsFrom(Concat([k \in 1..Len(level) |-> Children(level[k])]))

BreadthFirst == LevelsFrom(<<1>>)

\* What a traversal in breadth-first order reads: each directory, then the
\* .json files it holds.
ExpectedVisits ==
    LET order == BreadthFirst
    IN  Concat([k \in 1..Len(order) |->
                  LET at == Positions(order[k], "json")
                  IN  <<ReadDirCall(order[k])>>
                      \o [j \in 1..Len(at) |-> LoadFileCall(order[k], at[j])]])

\* The definitions a loadable file spells out, in the file's order.
DefinitionsIn(file) ==
    IF file.shape = "array" THEN file.defs
    ELSE IF file.shape = "object" THEN <<file.defs[1]>>
    ELSE <<>>

ExpectedMocks ==
    LET visits == ExpectedVisits
    IN  Concat([k \in 1..Len(visits) |->
                  IF visits[k].op = "ReadDir" THEN <<>>
                  ELSE DefinitionsIn(tree[visits[k].dir].entries[visits[k].index].file)])

\* A tree on which no read or parse fails and the directories other than the
\* root are no more than the queue holds.
Loadable ==
    /\ Len(tree) - 1 <= MAX_DIRECTORY_COUNT
    /\ \A d \in DOMAIN tree :
          /\ tree[d].readable
          /\ \A i \in DOMAIN tree[d].entries :
                tree[d].entries[i].kind = "json" => ~Unloadable(tree[d].entries[i].file)

IsPrefix(a, b) == Len(a) <= Len(b) /\ a = SubSeq(b, 1, Len(a))

\* C15: on such a tree loadMocks neither blocks nor fails; it reads the
\* directories in breadth-first order and each file when its directory is
\* read; when it has returned, every directory was read exactly once, every
\* .json file was parsed exactly once, nothing else was parsed, and the result
\* is the concatenation of the files' definitions in the order visited.
C15_BreadthFirstLoad ==
    Loadable =>
        /\ pc # "blocked"
        /\ ret.err \in {"nil", "none"}
        /\ LET visits == ExpectedVisits
           IN  IF ret.err = "nil" THEN visited = visits ELSE IsPrefix(visited, visits)
        /\ ret.err = "nil" =>
              /\ ret.mocks = ExpectedMocks
              /\ \A d \in DOMAIN tree :
                    /\ Len(SelectSeq(visited, LAMBDA v : v = ReadDirCall(d))) = 1
                    /\ \A i \in DOMAIN tree[d].entries :
                          Len(SelectSeq(visited, LAMBDA v : v = LoadFileCall(d, i)))
                             = IF tree[d].entries[i].kind = "json" THEN 1 ELSE 0

\* loadMocks returned four definitions from three files in four directories
\* on two levels below the root.
C15_Witness ==
    /\ Loadable
    /\ pc = "returned"
    /\ Len(tree) = 4
    /\ Len(visited) = 7
    /\ Len(ret.mocks) = 4

-----------------------------------------------------------------------------
(* C16 -- the order of a responder's writes.                               *)

\* The writes of a responder whose header map has n keys.
ResponderCalls(n) == [k \in 1..n |-> "Header.Add"] \o <<"WriteHeader", "Write">>

\* Whether a body was written to the response.
BodyWritten(q) == Count(q.w.calls, "Write") > 0

\* C16: a responder adds its headers, then writes the status line, then the
\* body; the chain is over once the body is written, and nothing is written
\* to that response afterwards: the writes end with the body, with one status
\* line before it, and the response stays as it is until the request is gone.
C16_HeadersStatusBody ==
    /\ [](\A s \in Slots :
            /\ reqs[s].invoked # <<>> =>
                  reqs[s].w.calls =
                     ResponderCalls(Cardinality(DOMAIN MergedHeaders(
                                       AnsweredBy(reqs[s]).Response.Headers)))
            /\ BodyWritten(reqs[s]) =>
                  /\ Done(s)
                  /\ reqs[s].w.calls[Len(reqs[s].w.calls)] = "Write"
                  /\ Count(reqs[s].w.calls, "WriteHeader") = 1
                  /\ Len(reqs[s].invoked) = 1
                  /\ reqs[s].w.status = StatusCodeOf(AnsweredBy(reqs[s])))
    /\ [][\A s \in Slots :
            BodyWritten(reqs[s]) => (reqs'[s].w = reqs[s].w \/ reqs'[s] = Idle)]_vars

\* A responder with three headers answered: three additions, the status
\* line, the body.
C16_Witness ==
    \E s \in Slots :
        /\ Done(s)
        /\ reqs[s].w.calls = ResponderCalls(3)
        /\ reqs[s].w.body # ""

-----------------------------------------------------------------------------
(* C17 -- two definitions with the same endpoint and method.               *)

\* The indices of the definitions in defs with the method.
IndicesOf(defs, method) == {i \in DOMAIN defs : defs[i].Method = method}

\* The largest index of a definition in defs with the method.
LastMatch(defs, method) ==
    CHOOSE i \in IndicesOf(defs, method) : \A j \in IndicesOf(defs, method) : j <= i

\* Whether the request in the slot is done and its endpoint has more than one
\* loaded definition with the request's method.
DoneWithDuplicate(s) ==
    /\ Done(s)
    /\ Cardinality(IndicesOf(DefsFor(reqs[s].Pattern), reqs[s].Method)) > 1

\* C17 as stated: of two definitions with the same endpoint and method the
\* later-loaded one answers; no load-time error is raised.
C17_LaterShadowsEarlier ==
    \A s \in Slots :
        LET q == reqs[s]
            defs == DefsFor(q.Pattern)
        IN DoneWithDuplicate(s) =>
              /\ ret.err = "nil"
              /\ q.w \in Renders(defs[LastMatch(defs, q.Method)])

\* C17, amended: of two definitions with the same endpoint and method the
\* earlier-loaded one answers and the later one is never invoked; no
\* load-time error is raised and both pairs stay in the endpoint's list.
C17_EarlierShadowsLater ==
    /\ \A e \in DOMAIN routeChain :
          \A m \in RequestMethods :
              Cardinality(IndicesOf(DefsFor(e), m)) > 1 =>
                 /\ ret.err = "nil"
                 /\ buildIdx = Len(ret.mocks) =>
                       [i \in DOMAIN routeChain[e].Middleware |->
                           routeChain[e].Middleware[i].Method]
                          = [i \in DOMAIN DefsFor(e) |-> DefsFor(e)[i].Method]
    /\ \A s \in Slots :
          LET q == reqs[s]
              defs == DefsFor(q.Pattern)
              first == CHOOSE i \in IndicesOf(defs, q.Method) :
                          \A j \in IndicesOf(defs, q.Method) : i <= j
          IN DoneWithDuplicate(s) =>
                /\ q.invoked = <<first - 1>>
                /\ first < LastMatch(defs, q.Method)
                /\ q.w \in Renders(defs[first])
                /\ q.nextCalls = first

\* A request answered with status 200 by the earlier of two definitions, the
\* later of which declares status 500.
C17_Witness ==
    \E s \in Slots :
        LET q == reqs[s]
            defs == DefsFor(q.Pattern)
        IN /\ DoneWithDuplicate(s)
           /\ q.w.status = 200
           /\ defs[LastMatch(defs, q.Method)].Response.StatusCode = 500

-----------------------------------------------------------------------------
(* C18 -- termination of loadMocks.                                        *)

\* C18: loadMocks never stays blocked on its queue: no send of a subdirectory
\* finds the channel full with nobody to receive, so the loader is always
\* either still at work or returned.
C18_LoadNeverBlocks ==
    /\ pc # "blocked"
    /\ (pc = "entries" /\ Head(entries).kind = "dir") => Len(dirStack) < MAX_DIRECTORY_COUNT

\* loadMocks is about to send the root's next subdirectory on the full
\* channel, having read the root only.
C18_Witness ==
    /\ pc = "entries"
    /\ Head(entries).kind = "dir"
    /\ Len(dirStack) = MAX_DIRECTORY_COUNT
    /\ Len(visited) = 1
    /\ ENABLED LoadSubdirectory

-----------------------------------------------------------------------------
(* C19 -- the error branch of the chain is never taken.                    *)

\* The status codes the definitions of the request's endpoint with the
\* request's method would write.
StatusesFor(q) ==
    {StatusCodeOf(DefsFor(q.Pattern)[i]) : i \in IndicesOf(DefsFor(q.Pattern), q.Method)}

\* C19: no responder calls next: next is never called with an error, a
\* responder's invocation is the last call of next of its request, and the
\* status of a handled request is 404, no responder having run, or the
\* normalized status code of the definition of that endpoint and method
\* whose responder ran; a 500 is written only when a definition declares it.
C19_NoChainError ==
    \A s \in Slots :
        LET q == reqs[s]
        IN /\ q.err = "nil"
           /\ q.invoked # <<>> =>
                 /\ Done(s)
                 /\ q.nextCalls = q.invoked[1] + 1
           /\ Done(s) =>
                 \/ /\ q.invoked = <<>>
                    /\ q.w.status = 404
                 \/ /\ Len(q.invoked) = 1
                    /\ AnsweredBy(q).Method = q.Method
                    /\ q.w.status = StatusCodeOf(AnsweredBy(q))
                    /\ q.w.status \in StatusesFor(q)
           /\ (Done(s) /\ q.w.status = 500) =>
                 /\ q.invoked # <<>>
                 /\ AnsweredBy(q).Response.StatusCode = 500

\* Two requests handled: one answered 500 by a definition that declares 500,
\* one answered 404 by the chain.
C19_Witness ==
    \E s, t \in Slots :
        /\ Done(s) /\ reqs[s].w.status = 500 /\ reqs[s].invoked # <<>>
        /\ Done(t) /\ reqs[t].w.status = 404 /\ reqs[t].nextCalls > 1

-----------------------------------------------------------------------------
(* C20 -- a skipped pair writes nothing.                                   *)

\* Whether the pair the request's next call of next looks at has a method
\* other than the request's.
AtOtherMethod(q) ==
    /\ q.pc = "next"
    /\ q.err = "nil"
    /\ q.currentMidleware + 1 < Len(q.middlewares)
    /\ q.middlewares[q.currentMidleware + 2].Method # q.Method

\* C20: a call of next that finds a pair with another method leaves the
\* response as it was and runs no responder; hence a request no responder
\* answered has status 404 written once, by the chain, on a response with no
\* header value and no body.
C20_SkipWritesNothing ==
    /\ [][\A s \in Slots :
            (AtOtherMethod(reqs[s]) /\ reqs'[s] # reqs[s]) =>
               /\ reqs'[s].w = reqs[s].w
               /\ reqs'[s].invoked = reqs[s].invoked
               /\ reqs'[s].currentMidleware = reqs[s].currentMidleware + 1]_vars
    /\ [](\A s \in Slots :
            (reqs[s].pc \in {"next", "done"} /\ reqs[s].invoked = <<>>) =>
               /\ \A n \in CanonicalNames : reqs[s].w.header[n] = <<>>
               /\ reqs[s].w.body = ""
               /\ reqs[s].w.calls = IF Done(s) THEN <<"WriteHeader">> ELSE <<>>
               /\ reqs[s].w.status = IF Done(s) THEN 404 ELSE 0)

\* A 404 after two pairs were skipped, one of which declares headers.
C20_Witness ==
    \E s \in Slots :
        /\ Done(s)
        /\ reqs[s].w.status = 404
        /\ reqs[s].nextCalls = 3
        /\ \E i \in DOMAIN reqs[s].middlewares :
              DOMAIN reqs[s].middlewares[i].Handler.Headers # {}
        /\ reqs[s].w.header = NewResponse.header

====
